---- MODULE Spec2Model ----
(***************************************************************************)
(* Model of pman's REST resources (src/pman/resources.py): the command     *)
(* builder JobListResource.build_app_cmd, the backend selector              *)
(* get_compute_mgr, and the request handlers JobListResource.post,          *)
(* JobResource.get and JobResource.delete running against a compute         *)
(* manager.                                                                 *)
(*                                                                          *)
(* Python strings are sequences of one-character strings, so that           *)
(* str.split, str.join, str.lstrip and os.path.join are computed character  *)
(* by character.                                                            *)
(***************************************************************************)
EXTENDS Integers, Sequences, FiniteSets, TLC

(***************************************************************************)
(* Bounds of the model.                                                     *)
(***************************************************************************)
\* cmd_args holds at most MaxTokens words
MaxTokens == 3
\* number of requests handled concurrently
MaxReq == 2
\* a caller-supplied job id has at most MaxSlashes leading '/'
MaxSlashes == 2

(***************************************************************************)
(* String constants of the program.                                         *)
(***************************************************************************)
\* self.str_app_container_inputdir = '/share/incoming'
str_app_container_inputdir ==
    <<"/", "s", "h", "a", "r", "e", "/", "i", "n", "c", "o", "m", "i", "n", "g">>

\* self.str_app_container_outputdir = '/share/outgoing'
str_app_container_outputdir ==
    <<"/", "s", "h", "a", "r", "e", "/", "o", "u", "t", "g", "o", "i", "n", "g">>

\* the values the request parser accepts for 'type'
PluginTypes == {"ds", "fs", "ts"}

(***************************************************************************)
(* Python string and list primitives.                                       *)
(***************************************************************************)
\* the characters str.split() (no separator) treats as whitespace
IsSpace(c) == c \in {" ", "\t", "\n"}

\* str.split(): split on runs of whitespace, no empty tokens
RECURSIVE SplitWsFrom(_, _, _)
SplitWsFrom(s, cur, acc) ==
    IF s = <<>>
    THEN IF cur = <<>> THEN acc ELSE Append(acc, cur)
    ELSE IF IsSpace(Head(s))
         THEN SplitWsFrom(Tail(s), <<>>, IF cur = <<>> THEN acc ELSE Append(acc, cur))
         ELSE SplitWsFrom(Tail(s), Append(cur, Head(s)), acc)

SplitWs(s) == SplitWsFrom(s, <<>>, <<>>)

\* str.split(sep) for a one-character separator: empty fields are kept
RECURSIVE SplitOnFrom(_, _, _, _)
SplitOnFrom(s, sep, cur, acc) ==
    IF s = <<>>
    THEN Append(acc, cur)
    ELSE IF Head(s) = sep
         THEN SplitOnFrom(Tail(s), sep, <<>>, Append(acc, cur))
         ELSE SplitOnFrom(Tail(s), sep, Append(cur, Head(s)), acc)

SplitOn(s, sep) == SplitOnFrom(s, sep, <<>>, <<>>)

\* sep.join(toks)
RECURSIVE Join(_, _)
Join(toks, sep) ==
    IF toks = <<>> THEN <<>>
    ELSE IF Len(toks) = 1 THEN toks[1]
    ELSE toks[1] \o sep \o Join(Tail(toks), sep)

\* s.lstrip('/'): drop every leading '/'
RECURSIVE Lstrip(_)
Lstrip(s) ==
    IF s # <<>> /\ Head(s) = "/" THEN Lstrip(Tail(s)) ELSE s

\* os.path.join(a, b) on POSIX
PathJoin(a, b) ==
    IF b # <<>> /\ Head(b) = "/" THEN b
    ELSE IF a = <<>> \/ a[Len(a)] = "/" THEN a \o b
    ELSE a \o <<"/">> \o b

\* x in l, for a Python list l
InList(x, l) == \E k \in 1..Len(l) : l[k] = x

\* l[i] = v with i a 0-based index; IndexError when i is out of range
ListSet(l, i, v) ==
    IF i >= 0 /\ i < Len(l)
    THEN [raised |-> "", list |-> [l EXCEPT ![i + 1] = v]]
    ELSE [raised |-> "IndexError", list |-> l]

(***************************************************************************)
(* JobListResource.build_app_cmd                                            *)
(***************************************************************************)
\* a loop over every index: range(len(args))
LoopRangeOffByOne(args) == Len(args)

\* range(len(args) - 1): the number of iterations of the rewriting loop
LoopRange(args) == Len(args) - 1

\* a loop body writing at i instead of i+1
LoopBodyReplacesFlag(args, path_flags, i) ==
    IF InList(args[i + 1], path_flags)
    THEN ListSet(args, i, str_app_container_inputdir)
    ELSE [raised |-> "", list |-> args]

\* one iteration of the loop body, i 0-based, on the list as it is now
LoopBody(args, path_flags, i) ==
    IF InList(args[i + 1], path_flags)
    THEN ListSet(args, i + 1, str_app_container_inputdir)
    ELSE [raised |-> "", list |-> args]

\* for i in range(n): ... ; an exception leaves the loop
RECURSIVE RewriteLoop(_, _, _, _)
RewriteLoop(args, path_flags, i, n) ==
    IF i >= n
    THEN [raised |-> "", list |-> args]
    ELSE LET step == LoopBody(args, path_flags, i)
         IN  IF step.raised # ""
             THEN step
             ELSE RewriteLoop(step.list, path_flags, i + 1, n)

\* the block under 'if cmd_path_flags:': the locals args and cmd_args after it
RewriteArgs(cmd_args_in, cmd_path_flags_in) ==
    LET path_flags == SplitOn(cmd_path_flags_in, ",")
        args0 == SplitWs(cmd_args_in)
        looped == RewriteLoop(args0, path_flags, 0, LoopRange(args0))
    IN  [raised |-> looped.raised,
         args |-> looped.list,
         cmd_args |-> Join(looped.list, <<" ">>)]

\* both directories appended whatever the plugin type
AppendedDirsAlways(plugin_type_in) ==
    <<str_app_container_inputdir, str_app_container_outputdir>>

\* the directories appended after the arguments, by plugin type
AppendedDirs(plugin_type_in) ==
    IF plugin_type_in = "ds"
    THEN <<str_app_container_inputdir, str_app_container_outputdir>>
    ELSE IF plugin_type_in \in {"fs", "ts"}
    THEN <<str_app_container_outputdir>>
    ELSE <<>>

\* the arguments tokenized whether or not path flags were sent
PathFlagsGivenAlways(cmd_path_flags_in) == TRUE

\* 'if cmd_path_flags:' -- a non-empty string is true
PathFlagsGiven(cmd_path_flags_in) == cmd_path_flags_in # <<>>

\* the whole function: the exception raised ("" when none), the locals args
\* and cmd_args at the return, and the returned cmd
build_app_cmd(cmd_args_in, cmd_path_flags_in, selfpath_in, selfexec_in, execshell_in, plugin_type_in) ==
    LET rw == IF PathFlagsGiven(cmd_path_flags_in)
              THEN RewriteArgs(cmd_args_in, cmd_path_flags_in)
              ELSE [raised |-> "", args |-> <<>>, cmd_args |-> cmd_args_in]
        exec == PathJoin(selfpath_in, selfexec_in)
        base == execshell_in \o <<" ">> \o exec
        dirs == AppendedDirs(plugin_type_in)
        cmd_out == IF dirs = <<>>
                   THEN base
                   ELSE base \o <<" ">> \o rw.cmd_args \o <<" ">> \o Join(dirs, <<" ">>)
    IN  IF rw.raised # ""
        THEN [raised |-> rw.raised, args |-> rw.args, cmd_args |-> cmd_args_in,
              cmd |-> <<>>]
        ELSE [raised |-> "", args |-> rw.args, cmd_args |-> rw.cmd_args,
              cmd |-> cmd_out]

(***************************************************************************)
(* State.                                                                   *)
(***************************************************************************)
VARIABLES
    args,           \* the parsed request fields build_app_cmd is called with
    built,          \* build_app_cmd's outcome for args
    container_env,  \* app.config['CONTAINER_ENV']
    storage_type,   \* app.config['STORAGE_TYPE']
    jobs,           \* ids of the jobs the compute cluster holds
    pc,             \* per request: where its handler stands
    req,            \* per request: the operation and the caller-supplied id
    loc,            \* per request: the handler's locals
    calls,          \* per request: the compute manager calls made so far
    raised,         \* per request: the ManagerExceptions the manager raised
    resp            \* per request: what reaches the caller

cmdvars == <<args, built>>
reqvars == <<container_env, storage_type, jobs, pc, req, loc, calls, raised, resp>>
vars == <<args, built, container_env, storage_type, jobs, pc, req, loc, calls, raised, resp>>

(***************************************************************************)
(* Inputs of build_app_cmd.                                                 *)
(***************************************************************************)
\* the words of cmd_args: a flag, an ordinary word that starts like the
\* flag, and the input directory itself
ArgTokens ==
    { <<"-", "d">>, <<"-", "d", "x">>, str_app_container_inputdir }

\* what separates the words: a blank, a tab, two blanks
ArgSeparators == { <<" ">>, <<"\t">>, <<" ", " ">> }

\* the lists of at most n words
RECURSIVE TokenLists(_)
TokenLists(n) ==
    IF n = 0 THEN { <<>> }
    ELSE LET shorter == TokenLists(n - 1)
         IN  shorter \cup { Append(l, t) : l \in shorter, t \in ArgTokens }

\* cmd_args: at most n words, one separator between them, with or without a
\* leading and a trailing blank
CmdArgStrings(n) ==
    { lead \o Join(l, sep) \o trail :
        l \in TokenLists(n), sep \in ArgSeparators,
        lead \in { <<>>, <<" ">> }, trail \in { <<>>, <<" ">> } }

\* cmd_path_flags: none, one flag, the flag and the ordinary word, the flag
\* and the input directory
PathFlagStrings ==
    { <<>>,
      <<"-", "d">>,
      <<"-", "d", ",", "-", "d", "x">>,
      <<"-", "d", ",">> \o str_app_container_inputdir }

\* selfpath and selfexec, over the cases of os.path.join
ExecLocations ==
    { [selfpath |-> <<>>, selfexec |-> <<"a">>],
      [selfpath |-> <<"/", "u">>, selfexec |-> <<"a">>],
      [selfpath |-> <<"/", "u", "/">>, selfexec |-> <<"a">>],
      [selfpath |-> <<"/", "u">>, selfexec |-> <<"/", "a">>] }

ExecShells == { <<"s", "h">> }

CmdRequests ==
    { [cmd_args |-> a, cmd_path_flags |-> f, selfpath |-> e.selfpath,
       selfexec |-> e.selfexec, execshell |-> sh, type |-> t] :
         a \in CmdArgStrings(MaxTokens), f \in PathFlagStrings, e \in ExecLocations,
         sh \in ExecShells, t \in PluginTypes }

NotBuilt == [state |-> "call", raised |-> "", args |-> <<>>, cmd_args |-> <<>>, cmd |-> <<>>]

\* a call of build_app_cmd with the fields of a
BuildOutcome(a) ==
    LET r == build_app_cmd(a.cmd_args, a.cmd_path_flags, a.selfpath, a.selfexec,
                           a.execshell, a.type)
    IN  [state |-> IF r.raised = "" THEN "returned" ELSE "raised",
         raised |-> r.raised, args |-> r.args, cmd_args |-> r.cmd_args, cmd |-> r.cmd]

(***************************************************************************)
(* Configuration, requests and the compute manager.                         *)
(***************************************************************************)
Workers == 1..MaxReq

\* values of CONTAINER_ENV: the three get_compute_mgr knows and one it does not
ContainerEnvs == {"swarm", "kubernetes", "openshift", "docker"}

StorageTypes == {"host", "nfs", "swift"}

\* app.config['STOREBASE']
storebase == <<"/", "s">>

RECURSIVE Slashes(_)
Slashes(k) == IF k = 0 THEN <<>> ELSE <<"/">> \o Slashes(k - 1)

JobNames == { <<"a">>, <<"b", "/", "c">> }

\* the job ids callers send: a name after 0..MaxSlashes leading '/'
RawJobIds == { Slashes(k) \o n : k \in 0..MaxSlashes, n \in JobNames }

\* the command fields of the POST requests
PostRequests ==
    { [cmd_args |-> <<"-", "d", " ", "x">>, cmd_path_flags |-> <<"-", "d">>,
       selfpath |-> <<"/", "u">>, selfexec |-> <<"a">>, execshell |-> <<"s", "h">>,
       type |-> "ds", image |-> "img"],
      [cmd_args |-> <<"-", "d", "x">>, cmd_path_flags |-> <<>>,
       selfpath |-> <<>>, selfexec |-> <<"a">>, execshell |-> <<"s", "h">>,
       type |-> "fs", image |-> "img"] }

\* get_compute_mgr(container_env): the manager constructed, "None" when
\* no branch assigns compute_mgr
get_compute_mgr(env) ==
    IF env = "swarm" THEN "SwarmManager"
    ELSE IF env = "kubernetes" THEN "KubernetesManager"
    ELSE IF env = "openshift" THEN "OpenShiftManager"
    ELSE "None"

\* share_dir of post: None unless STORAGE_TYPE is 'host' or 'nfs'
ShareDir(job_id) ==
    IF storage_type \in {"host", "nfs"}
    THEN [is_none |-> FALSE,
          path |-> PathJoin(storebase, <<"k", "e", "y", "-">> \o job_id)]
    ELSE [is_none |-> TRUE, path |-> <<>>]

\* the ManagerExceptions a manager operation can raise (abstractmgr and the
\* managers are outside the source tree)
ManagerRaises(op, job_id) ==
    CASE op = "schedule_job" ->
            { [status_code |-> 400, message |-> "rejected"],
              [status_code |-> 503, message |-> "unavailable"] }
      [] op = "get_job" ->
            IF job_id \in jobs
            THEN { [status_code |-> 503, message |-> "unavailable"] }
            ELSE { [status_code |-> 404, message |-> "not found"] }
      [] OTHER -> { [status_code |-> 503, message |-> "unavailable"] }

\* whether a manager operation can return normally
ManagerReturns(op, job_id) ==
    IF op = "get_job" THEN job_id \in jobs ELSE TRUE

NoLocals == [job_id |-> <<>>, compute_mgr |-> "None", has_job |-> FALSE,
             job |-> <<>>, has_info |-> FALSE, has_logs |-> FALSE]

NoRequest == [op |-> "none", jid |-> <<>>]

NoResponse == [kind |-> "none", status |-> 0, message |-> "", jid |-> <<>>,
               record |-> FALSE]

\* flask_restful abort(status_code, message=...)
Abort(e) == [kind |-> "abort", status |-> e.status_code, message |-> e.message,
             jid |-> <<>>, record |-> FALSE]

\* an exception no handler catches leaves the resource method
Unhandled(exc, e) == [kind |-> exc, status |-> e.status_code, message |-> e.message,
                      jid |-> <<>>, record |-> FALSE]

NoDetail == [status_code |-> 0, message |-> ""]

\* an admission check that lets one request at a time submit a job id
SubmitAdmittedOnePerId(r, job_id) ==
    \A o \in Workers \ {r} : ~(pc[o] = "schedule_job" /\ loc[o].job_id = job_id)

\* post has no admission check between parsing and schedule_job
SubmitAdmitted(r, job_id) == TRUE

\* only the first '/' removed
StripOneSlash(jid) == IF jid # <<>> /\ Head(jid) = "/" THEN Tail(jid) ELSE jid

\* job_id = jid.lstrip('/')
NormalizeJobId(jid) == Lstrip(jid)

(***************************************************************************)
(* JobListResource.post                                                     *)
(***************************************************************************)
\* lines 75-100: up to the call of compute_mgr.schedule_job
PostBegin(r, a, jid) ==
    /\ pc[r] = "idle"
    /\ LET job_id == NormalizeJobId(jid)
           b == build_app_cmd(a.cmd_args, a.cmd_path_flags, a.selfpath, a.selfexec,
                              a.execshell, a.type)
           share_dir == ShareDir(job_id)
           compute_mgr == get_compute_mgr(container_env)
       IN  /\ SubmitAdmitted(r, job_id)
           /\ req' = [req EXCEPT ![r] = [op |-> "post", jid |-> jid]]
           /\ loc' = [loc EXCEPT ![r] = [NoLocals EXCEPT !.job_id = job_id,
                                                         !.compute_mgr = compute_mgr]]
           /\ IF b.raised # ""
              THEN /\ resp' = [resp EXCEPT ![r] = Unhandled(b.raised, NoDetail)]
                   /\ pc' = [pc EXCEPT ![r] = "done"]
                   /\ UNCHANGED calls
              ELSE IF compute_mgr = "None"
              THEN \* None.schedule_job: AttributeError, not a ManagerException
                   /\ resp' = [resp EXCEPT ![r] = Unhandled("AttributeError", NoDetail)]
                   /\ pc' = [pc EXCEPT ![r] = "done"]
                   /\ UNCHANGED calls
              ELSE /\ calls' = [calls EXCEPT ![r] = Append(@,
                                 [op |-> "schedule_job", mgr |-> compute_mgr,
                                  id |-> job_id, image |-> a.image, cmd |-> b.cmd,
                                  share_dir |-> share_dir])]
                   /\ pc' = [pc EXCEPT ![r] = "schedule_job"]
                   /\ UNCHANGED resp
    /\ UNCHANGED <<cmdvars, container_env, storage_type, jobs, raised>>

\* a call on the manager without the fields only schedule_job has
Call(op, mgr, id) ==
    [op |-> op, mgr |-> mgr, id |-> id, image |-> "", cmd |-> <<>>,
     share_dir |-> [is_none |-> TRUE, path |-> <<>>]]

\* schedule_job returns; lines 106: get_job_info is called
ScheduleOk(r) ==
    /\ pc[r] = "schedule_job"
    /\ ManagerReturns("schedule_job", loc[r].job_id)
    /\ jobs' = jobs \cup {loc[r].job_id}
    /\ loc' = [loc EXCEPT ![r].has_job = TRUE, ![r].job = loc[r].job_id]
    /\ calls' = [calls EXCEPT ![r] =
                   Append(@, Call("get_job_info", loc[r].compute_mgr, loc[r].job_id))]
    /\ pc' = [pc EXCEPT ![r] = "get_job_info"]
    /\ UNCHANGED <<cmdvars, container_env, storage_type, req, raised, resp>>

\* the handler logs the error and goes on to get_job_info
ScheduleRaisesGoesOn(r, e) ==
    /\ pc[r] = "schedule_job"
    /\ e \in ManagerRaises("schedule_job", loc[r].job_id)
    /\ raised' = [raised EXCEPT ![r] = Append(@, e)]
    /\ calls' = [calls EXCEPT ![r] =
                   Append(@, Call("get_job_info", loc[r].compute_mgr, loc[r].job_id))]
    /\ pc' = [pc EXCEPT ![r] = "get_job_info"]
    /\ UNCHANGED <<cmdvars, container_env, storage_type, jobs, req, loc, resp>>

\* lines 101-104: except ManagerException as e: abort(e.status_code, message=str(e))
ScheduleRaises(r, e) ==
    /\ pc[r] = "schedule_job"
    /\ e \in ManagerRaises("schedule_job", loc[r].job_id)
    /\ raised' = [raised EXCEPT ![r] = Append(@, e)]
    /\ resp' = [resp EXCEPT ![r] = Abort(e)]
    /\ pc' = [pc EXCEPT ![r] = "done"]
    /\ UNCHANGED <<cmdvars, container_env, storage_type, jobs, req, loc, calls>>

\* return {'jid': job_id, ...}, 201 (post) and return {'jid': job_id, ...} (get)
JobRecordResponse(op, job_id) ==
    [kind |-> "response", status |-> IF op = "post" THEN 201 ELSE 200,
     message |-> "", jid |-> job_id, record |-> TRUE]

\* return '', 204
DeletedResponse == [kind |-> "response", status |-> 204, message |-> "",
                    jid |-> <<>>, record |-> FALSE]

\* get_job_info returns (post line 106, get line 186); get_job_logs is called
InfoOk(r) ==
    /\ pc[r] = "get_job_info"
    /\ ManagerReturns("get_job_info", loc[r].job)
    /\ loc' = [loc EXCEPT ![r].has_info = TRUE]
    /\ calls' = [calls EXCEPT ![r] =
                   Append(@, Call("get_job_logs", loc[r].compute_mgr, loc[r].job))]
    /\ pc' = [pc EXCEPT ![r] = "get_job_logs"]
    /\ UNCHANGED <<cmdvars, container_env, storage_type, jobs, req, raised, resp>>

\* get_job_info raises: the call is outside every try block
InfoRaises(r, e) ==
    /\ pc[r] = "get_job_info"
    /\ e \in ManagerRaises("get_job_info", loc[r].job)
    /\ raised' = [raised EXCEPT ![r] = Append(@, e)]
    /\ resp' = [resp EXCEPT ![r] = Unhandled("ManagerException", e)]
    /\ pc' = [pc EXCEPT ![r] = "done"]
    /\ UNCHANGED <<cmdvars, container_env, storage_type, jobs, req, loc, calls>>

\* get_job_logs returns (post line 109, get line 189); the record is returned
LogsOk(r) ==
    /\ pc[r] = "get_job_logs"
    /\ ManagerReturns("get_job_logs", loc[r].job)
    /\ loc' = [loc EXCEPT ![r].has_logs = TRUE]
    /\ resp' = [resp EXCEPT ![r] = JobRecordResponse(req[r].op, loc[r].job_id)]
    /\ pc' = [pc EXCEPT ![r] = "done"]
    /\ UNCHANGED <<cmdvars, container_env, storage_type, jobs, req, calls, raised>>

\* get_job_logs raises: the call is outside every try block
LogsRaises(r, e) ==
    /\ pc[r] = "get_job_logs"
    /\ e \in ManagerRaises("get_job_logs", loc[r].job)
    /\ raised' = [raised EXCEPT ![r] = Append(@, e)]
    /\ resp' = [resp EXCEPT ![r] = Unhandled("ManagerException", e)]
    /\ pc' = [pc EXCEPT ![r] = "done"]
    /\ UNCHANGED <<cmdvars, container_env, storage_type, jobs, req, loc, calls>>

(***************************************************************************)
(* JobResource.get and JobResource.delete                                   *)
(***************************************************************************)
\* __init__ (lines 165-166) and the method up to the call of get_job
LookupBegin(r, op, jid) ==
    /\ pc[r] = "idle"
    /\ LET job_id == NormalizeJobId(jid)
           compute_mgr == get_compute_mgr(container_env)
       IN  /\ req' = [req EXCEPT ![r] = [op |-> op, jid |-> jid]]
           /\ loc' = [loc EXCEPT ![r] = [NoLocals EXCEPT !.job_id = job_id,
                                                         !.compute_mgr = compute_mgr]]
           /\ IF compute_mgr = "None"
              THEN \* None.get_job: AttributeError, not a ManagerException
                   /\ resp' = [resp EXCEPT ![r] = Unhandled("AttributeError", NoDetail)]
                   /\ pc' = [pc EXCEPT ![r] = "done"]
                   /\ UNCHANGED calls
              ELSE /\ calls' = [calls EXCEPT ![r] =
                                  Append(@, Call("get_job", compute_mgr, job_id))]
                   /\ pc' = [pc EXCEPT ![r] = "get_job"]
                   /\ UNCHANGED resp
    /\ UNCHANGED <<cmdvars, container_env, storage_type, jobs, raised>>

\* get(self, job_id), lines 175-183
GetBegin(r, jid) == LookupBegin(r, "get", jid)

\* delete(self, job_id), lines 202-207
DeleteBegin(r, jid) == LookupBegin(r, "delete", jid)

\* the call made once get_job has returned: get_job_info in get (line 186),
\* remove_job in delete (line 210)
AfterLookup(op) == IF op = "get" THEN "get_job_info" ELSE "remove_job"

\* get_job returns the job
LookupOk(r) ==
    /\ pc[r] = "get_job"
    /\ ManagerReturns("get_job", loc[r].job_id)
    /\ loc' = [loc EXCEPT ![r].has_job = TRUE, ![r].job = loc[r].job_id]
    /\ calls' = [calls EXCEPT ![r] =
                   Append(@, Call(AfterLookup(req[r].op), loc[r].compute_mgr,
                                  loc[r].job_id))]
    /\ pc' = [pc EXCEPT ![r] = AfterLookup(req[r].op)]
    /\ UNCHANGED <<cmdvars, container_env, storage_type, jobs, req, raised, resp>>

\* the handler goes on to the next call after a failed get_job
LookupRaisesGoesOn(r, e) ==
    /\ pc[r] = "get_job"
    /\ e \in ManagerRaises("get_job", loc[r].job_id)
    /\ raised' = [raised EXCEPT ![r] = Append(@, e)]
    /\ calls' = [calls EXCEPT ![r] =
                   Append(@, Call(AfterLookup(req[r].op), loc[r].compute_mgr,
                                  loc[r].job_id))]
    /\ pc' = [pc EXCEPT ![r] = AfterLookup(req[r].op)]
    /\ UNCHANGED <<cmdvars, container_env, storage_type, jobs, req, loc, resp>>

\* lines 184-185 and 208-209: except ManagerException as e: abort(...)
LookupRaises(r, e) ==
    /\ pc[r] = "get_job"
    /\ e \in ManagerRaises("get_job", loc[r].job_id)
    /\ raised' = [raised EXCEPT ![r] = Append(@, e)]
    /\ resp' = [resp EXCEPT ![r] = Abort(e)]
    /\ pc' = [pc EXCEPT ![r] = "done"]
    /\ UNCHANGED <<cmdvars, container_env, storage_type, jobs, req, loc, calls>>

\* remove_job returns (line 210); return '', 204
RemoveOk(r) ==
    /\ pc[r] = "remove_job"
    /\ ManagerReturns("remove_job", loc[r].job)
    /\ jobs' = jobs \ {loc[r].job}
    /\ resp' = [resp EXCEPT ![r] = DeletedResponse]
    /\ pc' = [pc EXCEPT ![r] = "done"]
    /\ UNCHANGED <<cmdvars, container_env, storage_type, req, loc, calls, raised>>

\* remove_job raises: the call is outside the try block
RemoveRaises(r, e) ==
    /\ pc[r] = "remove_job"
    /\ e \in ManagerRaises("remove_job", loc[r].job)
    /\ raised' = [raised EXCEPT ![r] = Append(@, e)]
    /\ resp' = [resp EXCEPT ![r] = Unhandled("ManagerException", e)]
    /\ pc' = [pc EXCEPT ![r] = "done"]
    /\ UNCHANGED <<cmdvars, container_env, storage_type, jobs, req, loc, calls>>

(***************************************************************************)
(* Specifications.                                                          *)
(***************************************************************************)
IdleRequests ==
    /\ pc = [r \in Workers |-> "idle"]
    /\ req = [r \in Workers |-> NoRequest]
    /\ loc = [r \in Workers |-> NoLocals]
    /\ calls = [r \in Workers |-> <<>>]
    /\ raised = [r \in Workers |-> <<>>]
    /\ resp = [r \in Workers |-> NoResponse]

\* the server after start-up: a configuration, an empty cluster, no request
\* received yet
Init ==
    /\ args = CHOOSE a \in CmdRequests : TRUE
    /\ built = NotBuilt
    /\ container_env \in ContainerEnvs
    /\ storage_type \in StorageTypes
    /\ jobs = {}
    /\ IdleRequests

Serve(r) ==
    \/ \E a \in PostRequests, jid \in RawJobIds : PostBegin(r, a, jid)
    \/ \E jid \in RawJobIds : GetBegin(r, jid)
    \/ \E jid \in RawJobIds : DeleteBegin(r, jid)
    \/ ScheduleOk(r)
    \/ \E e \in ManagerRaises("schedule_job", loc[r].job_id) : ScheduleRaises(r, e)
    \/ LookupOk(r)
    \/ \E e \in ManagerRaises("get_job", loc[r].job_id) : LookupRaises(r, e)
    \/ InfoOk(r)
    \/ \E e \in ManagerRaises("get_job_info", loc[r].job) : InfoRaises(r, e)
    \/ LogsOk(r)
    \/ \E e \in ManagerRaises("get_job_logs", loc[r].job) : LogsRaises(r, e)
    \/ RemoveOk(r)
    \/ \E e \in ManagerRaises("remove_job", loc[r].job) : RemoveRaises(r, e)

\* the worker is done with its request and takes the next one
Finish(r) ==
    /\ pc[r] = "done"
    /\ pc' = [pc EXCEPT ![r] = "idle"]
    /\ req' = [req EXCEPT ![r] = NoRequest]
    /\ loc' = [loc EXCEPT ![r] = NoLocals]
    /\ calls' = [calls EXCEPT ![r] = <<>>]
    /\ raised' = [raised EXCEPT ![r] = <<>>]
    /\ resp' = [resp EXCEPT ![r] = NoResponse]
    /\ UNCHANGED <<cmdvars, container_env, storage_type, jobs>>

\* one worker handling one request after the other
Next == Serve(1) \/ Finish(1)

Spec == Init /\ [][Next]_vars

\* MaxReq workers handling Submit requests for one job at the same time
SameJobIds == { <<"a">>, <<"/", "a">> }

InitConc ==
    /\ args = CHOOSE a \in CmdRequests : TRUE
    /\ built = NotBuilt
    /\ container_env \in ContainerEnvs
    /\ storage_type = "host"
    /\ jobs = {}
    /\ IdleRequests

Submit(r) ==
    \/ \E a \in PostRequests, jid \in SameJobIds : PostBegin(r, a, jid)
    \/ ScheduleOk(r)
    \/ \E e \in ManagerRaises("schedule_job", loc[r].job_id) : ScheduleRaises(r, e)
    \/ InfoOk(r)
    \/ \E e \in ManagerRaises("get_job_info", loc[r].job) : InfoRaises(r, e)
    \/ LogsOk(r)
    \/ \E e \in ManagerRaises("get_job_logs", loc[r].job) : LogsRaises(r, e)

NextConc == \E r \in Workers : Submit(r)

SpecConc == InitConc /\ [][NextConc]_vars

\* build_app_cmd on its own, over all the inputs of CmdRequests
InitCmd ==
    /\ args \in CmdRequests
    /\ built = NotBuilt
    /\ container_env = "swarm"
    /\ storage_type = "host"
    /\ jobs = {}
    /\ IdleRequests

BuildAppCmd ==
    /\ built.state = "call"
    /\ built' = BuildOutcome(args)
    /\ UNCHANGED <<args, reqvars>>

NextCmd == BuildAppCmd

SpecCmd == InitCmd /\ [][NextCmd]_vars

(***************************************************************************)
(* Properties of build_app_cmd, checked under SpecCmd.                      *)
(***************************************************************************)
\* how often x occurs in the list l
Count(x, l) == Cardinality({ k \in 1..Len(l) : l[k] = x })

\* the whitespace tokenization of the cmd_args the caller sent
CallerTokens == SplitWs(args.cmd_args)

\* the path flags the caller sent
CallerFlags == SplitOn(args.cmd_path_flags, ",")

\* execshell and the executable path, as the command starts
CommandHead == args.execshell \o <<" ">> \o PathJoin(args.selfpath, args.selfexec)

\* C2, as stated: for kind fs or ts the built command never contains the
\* input directory as a token; for kind ds it contains the input and the
\* output directory.
C2_NeverInputDirForFsTs ==
    built.state = "returned" =>
        /\ args.type \in {"fs", "ts"} =>
              ~InList(str_app_container_inputdir, SplitWs(built.cmd))
        /\ args.type = "ds" =>
              /\ InList(str_app_container_inputdir, SplitWs(built.cmd))
              /\ InList(str_app_container_outputdir, SplitWs(built.cmd))

\* C2, amended: for kind fs or ts the command's tokens are those of execshell
\* and the executable path, then those of the (possibly rewritten) argument
\* string, then the output directory alone, so the input directory is never
\* appended and occurs in the command exactly as often as in those parts;
\* for kind ds the input and then the output directory are appended, so the
\* command always contains both.
C2_InputDirOnlyAppendedForDs ==
    built.state = "returned" =>
        LET toks == SplitWs(built.cmd)
            head == SplitWs(CommandHead)
            rewritten == SplitWs(built.cmd_args)
        IN  /\ args.type \in {"fs", "ts"} =>
                  /\ toks = head \o rewritten \o <<str_app_container_outputdir>>
                  /\ Count(str_app_container_inputdir, toks) =
                        Count(str_app_container_inputdir, head)
                        + Count(str_app_container_inputdir, rewritten)
            /\ args.type = "ds" =>
                  /\ toks = head \o rewritten
                            \o <<str_app_container_inputdir, str_app_container_outputdir>>
                  /\ InList(str_app_container_inputdir, toks)
                  /\ InList(str_app_container_outputdir, toks)

\* a filter job whose path flag argument was rewritten: the input directory
\* is in its command
C2_Witness ==
    /\ built.state = "returned"
    /\ args.type = "fs"
    /\ args.cmd_path_flags = <<"-", "d">>
    /\ args.cmd_args = <<"-", "d", " ", "-", "d", "x">>
    /\ InList(str_app_container_inputdir, SplitWs(built.cmd))

\* C3, as stated: with path flags given, every position of the caller's
\* tokens that holds a path flag and has a successor has the input directory
\* at the next position of the rewritten list, every other token is
\* unchanged, and the tokens are joined with single spaces.
C3_EveryFlagOfTheOriginalRewrites ==
    (built.state = "returned" /\ args.cmd_path_flags # <<>>) =>
        /\ Len(built.args) = Len(CallerTokens)
        /\ \A i \in 1..Len(CallerTokens) :
              IF i > 1 /\ InList(CallerTokens[i - 1], CallerFlags)
              THEN built.args[i] = str_app_container_inputdir
              ELSE built.args[i] = CallerTokens[i]
        /\ built.cmd_args = Join(built.args, <<" ">>)

\* C3, amended: the positions are visited from left to right on the list as
\* rewritten so far, so position i+1 gets the input directory exactly when
\* the token standing at i after the rewriting -- not the caller's token
\* there -- is a path flag; every other token is the caller's, in order, and
\* the tokens are joined with single spaces.
C3_FlagAsItStandsRewrites ==
    (built.state = "returned" /\ args.cmd_path_flags # <<>>) =>
        /\ Len(built.args) = Len(CallerTokens)
        /\ \A i \in 1..Len(CallerTokens) :
              IF i > 1 /\ InList(built.args[i - 1], CallerFlags)
              THEN built.args[i] = str_app_container_inputdir
              ELSE built.args[i] = CallerTokens[i]
        /\ built.cmd_args = Join(built.args, <<" ">>)

\* a flag whose argument is itself a flag: the argument is rewritten and
\* the word after it is kept
C3_Witness ==
    /\ built.state = "returned"
    /\ args.cmd_path_flags = <<"-", "d">>
    /\ args.cmd_args = <<"-", "d", "\t", "-", "d", "\t", "-", "d", "x">>
    /\ built.args = << <<"-", "d">>, str_app_container_inputdir, <<"-", "d", "x">> >>

\* C8, as stated: with a path flag as the last token, the call returns a
\* command, the token list keeps its length and the trailing flag.
C8_TrailingFlagKept ==
    (built.state # "call" /\ args.cmd_path_flags # <<>> /\ CallerTokens # <<>>
       /\ InList(CallerTokens[Len(CallerTokens)], CallerFlags)) =>
        /\ built.state = "returned"
        /\ Len(built.args) = Len(CallerTokens)
        /\ built.args[Len(built.args)] = CallerTokens[Len(CallerTokens)]

\* C8, amended: with a path flag as the last token, the call raises nothing
\* and returns a command, the token list keeps its length, and the trailing
\* flag is the last token still unless the token before it stands as a path
\* flag, in which case the trailing flag is that flag's argument and is
\* replaced by the input directory.
C8_TrailingFlagNoIndexError ==
    (built.state # "call" /\ args.cmd_path_flags # <<>> /\ CallerTokens # <<>>
       /\ InList(CallerTokens[Len(CallerTokens)], CallerFlags)) =>
        LET n == Len(CallerTokens)
        IN  /\ built.state = "returned"
            /\ built.raised = ""
            /\ Len(built.args) = n
            /\ built.args[n] =
                  IF n > 1 /\ InList(built.args[n - 1], CallerFlags)
                  THEN str_app_container_inputdir
                  ELSE CallerTokens[n]
            /\ built.cmd = CommandHead \o <<" ">> \o Join(built.args, <<" ">>)
                           \o <<" ">> \o Join(AppendedDirs(args.type), <<" ">>)

\* a word and then the flag, nothing after it
C8_Witness ==
    /\ built.state = "returned"
    /\ args.cmd_path_flags = <<"-", "d">>
    /\ args.cmd_args = <<"-", "d", "x", " ", "-", "d">>
    /\ built.args = << <<"-", "d", "x">>, <<"-", "d">> >>

\* C9: without path flags the command is execshell, a blank, the join of
\* selfpath and selfexec, a blank, cmd_args as sent, and then
\* ' /share/incoming /share/outgoing' for ds, ' /share/outgoing' for fs and ts.
C9_NoPathFlagsPassThrough ==
    (built.state # "call" /\ args.cmd_path_flags = <<>>) =>
        /\ built.state = "returned"
        /\ built.cmd =
              args.execshell \o <<" ">> \o PathJoin(args.selfpath, args.selfexec)
              \o <<" ">> \o args.cmd_args
              \o (IF args.type = "ds"
                  THEN <<" ">> \o str_app_container_inputdir
                       \o <<" ">> \o str_app_container_outputdir
                  ELSE <<" ">> \o str_app_container_outputdir)

\* arguments separated by two blanks and followed by one, no path flags
C9_Witness ==
    /\ built.state = "returned"
    /\ args.cmd_path_flags = <<>>
    /\ args.cmd_args = <<"-", "d", " ", " ", "-", "d", "x", " ">>
    /\ args.type = "ts"

(***************************************************************************)
(* Properties of the request handlers, checked under Spec and SpecConc.     *)
(***************************************************************************)
KnownEnvs == {"swarm", "kubernetes", "openshift"}

\* the operations of the calls a request has made, in order
CallOps(r) == [k \in 1..Len(calls[r]) |-> calls[r][k].op]

IsPrefix(p, q) == Len(p) <= Len(q) /\ \A k \in 1..Len(p) : p[k] = q[k]

\* C1: under a CONTAINER_ENV outside swarm, kubernetes and openshift the
\* manager a request has selected is never absent, and the request ends in
\* an explicit error response, not in an operation called on an absent
\* manager.
C1_UnknownBackendExplicitFailure ==
    container_env \notin KnownEnvs =>
        \A r \in Workers :
            pc[r] # "idle" =>
                /\ loc[r].compute_mgr # "None"
                /\ resp[r].kind # "AttributeError"
                /\ pc[r] = "done" => resp[r].kind = "abort"

\* C4: every ManagerException a manager operation raises during a request
\* ends the request with an abort carrying that exception's status code and
\* message, and the operation is not called again.
C4_BackendFailuresTranslated ==
    \A r \in Workers :
        raised[r] # <<>> =>
            /\ Len(raised[r]) = 1
            /\ pc[r] = "done"
            /\ resp[r] = Abort(raised[r][1])
            /\ \A j, k \in 1..Len(calls[r]) : calls[r][j].op = calls[r][k].op => j = k

\* C5: a Submit request calls schedule_job, get_job_info, get_job_logs in
\* this order, each at most once; when schedule_job fails the other two are
\* not called, no record is returned and the response carries the failure's
\* status code and message; a 201 response with a record is returned only
\* after all three have returned.
C5_SubmitOrder ==
    \A r \in Workers :
        req[r].op = "post" =>
            /\ IsPrefix(CallOps(r), <<"schedule_job", "get_job_info", "get_job_logs">>)
            /\ (raised[r] # <<>> /\ ~loc[r].has_job) =>
                  /\ CallOps(r) = <<"schedule_job">>
                  /\ resp[r] = Abort(raised[r][1])
                  /\ ~resp[r].record
                  /\ pc[r] = "done"
            /\ resp[r].kind = "response" =>
                  /\ resp[r].status = 201
                  /\ resp[r].record
                  /\ CallOps(r) = <<"schedule_job", "get_job_info", "get_job_logs">>
                  /\ loc[r].has_job /\ loc[r].has_info /\ loc[r].has_logs
                  /\ raised[r] = <<>>

\* a Submit request answered 201 after its three calls
C5_Witness ==
    \E r \in Workers :
        /\ req[r].op = "post"
        /\ resp[r].status = 201
        /\ Len(calls[r]) = 3

\* C6: a Remove request calls remove_job only after get_job has returned
\* the job of the same normalized id in this request; when get_job fails,
\* remove_job is not called and the response carries the failure's status
\* code and message; success is status 204 with an empty body and no record.
C6_RemoveAfterLookup ==
    \A r \in Workers :
        req[r].op = "delete" =>
            /\ IsPrefix(CallOps(r), <<"get_job", "remove_job">>)
            /\ Len(calls[r]) = 2 =>
                  /\ loc[r].has_job
                  /\ calls[r][1].id = Lstrip(req[r].jid)
                  /\ calls[r][2].id = calls[r][1].id
                  /\ raised[r] = <<>> \/ pc[r] = "done"
            /\ (raised[r] # <<>> /\ ~loc[r].has_job) =>
                  /\ CallOps(r) = <<"get_job">>
                  /\ resp[r] = Abort(raised[r][1])
            /\ resp[r].kind = "response" =>
                  /\ resp[r].status = 204
                  /\ ~resp[r].record
                  /\ resp[r].jid = <<>>
                  /\ CallOps(r) = <<"get_job", "remove_job">>

\* a Remove request answered 204
C6_Witness ==
    \E r \in Workers :
        /\ req[r].op = "delete"
        /\ resp[r].status = 204
        /\ CallOps(r) = <<"get_job", "remove_job">>

\* s does not begin with '/'
NoLeadingSlash(s) == s = <<>> \/ Head(s) # "/"

\* C7: the id passed to the manager by post, get and delete, used in the
\* share directory 'key-<id>' and returned as 'jid' never begins with '/',
\* and is the same for all caller ids that differ only in leading '/'.
C7_NormalizedJobId ==
    \A r \in Workers :
        \A n \in JobNames, k \in 0..MaxSlashes :
            (pc[r] # "idle" /\ req[r].jid = Slashes(k) \o n) =>
                /\ loc[r].job_id = n
                /\ \A c \in 1..Len(calls[r]) :
                      /\ calls[r][c].id = n
                      /\ NoLeadingSlash(calls[r][c].id)
                      /\ ~calls[r][c].share_dir.is_none =>
                            calls[r][c].share_dir.path =
                               storebase \o <<"/", "k", "e", "y", "-">> \o n
                /\ resp[r].record =>
                      resp[r].jid = n /\ NoLeadingSlash(resp[r].jid)

\* a Remove request for '//a' whose calls carry 'a'
C7_Witness ==
    \E r \in Workers :
        /\ req[r].op = "delete"
        /\ req[r].jid = <<"/", "/", "a">>
        /\ Len(calls[r]) = 2
        /\ calls[r][2].op = "remove_job"
        /\ calls[r][2].id = <<"a">>

\* C10: the handlers apply no per-job mutual exclusion: whatever the other
\* requests are doing, an idle worker can take a Submit request for any id
\* and call schedule_job for it, so two requests can be inside schedule_job
\* for the same job id at once.
C10_SubmitNeverBlocked ==
    \A r \in Workers, jid \in SameJobIds :
        (pc[r] = "idle" /\ container_env \in KnownEnvs) =>
            ENABLED (/\ \E a \in PostRequests : PostBegin(r, a, jid)
                     /\ pc'[r] = "schedule_job")

\* two requests inside schedule_job for the same job id
C10_Witness ==
    \E r1, r2 \in Workers :
        /\ r1 # r2
        /\ pc[r1] = "schedule_job" /\ pc[r2] = "schedule_job"
        /\ loc[r1].job_id = loc[r2].job_id
        /\ calls[r1][Len(calls[r1])].op = "schedule_job"
        /\ calls[r2][Len(calls[r2])].op = "schedule_job"
        /\ calls[r1][Len(calls[r1])].id = calls[r2][Len(calls[r2])].id

====
